---- MODULE Spec2Model ----
(***************************************************************************)
(* PreRenderer (src/src/heatmap_generation/prerenderer.py): a background   *)
(* thread that fills a window of pre-rendered frames around a requested    *)
(* index, guarded by one Lock/Condition, with start/stop/request/get       *)
(* called from other threads.                                              *)
(*                                                                         *)
(* A frame is identified by its index; the animator is abstracted to the   *)
(* number of frames it reports (n_frames) and the set of indices whose     *)
(* render_frame_at raises (Heatmap_Project/animator.py defines no          *)
(* render_frame_at, so with that Animator every index raises; `bad` ranges *)
(* over no index, one index and all indices).  Every `with` block of the   *)
(* background loop is a state in which the loop holds the lock; the        *)
(* callers' blocks are straight-line code, taken as one step that needs    *)
(* the lock to be free.                                                    *)
(*                                                                         *)
(* Around it: Worker (Heatmap_Project/worker.py), the sleep-based tick     *)
(* clock; Animator (Heatmap_Project/animator.py), the frame index, the     *)
(* centre-of-pressure trails and the markers drawn on a frame; and         *)
(* HeatmapWorker with HeatmapAdapter.set_data                              *)
(* (video_gait_analyzer/core/heatmap_adapter.py), the timer-driven player  *)
(* that owns an Animator and a PreRenderer.  Each specification runs the   *)
(* components it is about and leaves the others unconstructed.             *)
(***************************************************************************)
EXTENDS Integers, Sequences, FiniteSets, TLC

\* ---------------------------------------------------------------- bounds
MaxCapacity == 4
MaxFrames == 3
MaxTarget == 3
MaxLiveCapacity == 2
MaxLiveFrames == 2
MaxTime == 66        \* Worker.run is followed up to this time (units of 1/64 s)
MaxStall == 40       \* a delay of the Worker thread between two statements
MaxOversleep == 1    \* time.sleep() returns at most this late
MaxTrail == 2        \* largest trailLength
MaxAppends == 3      \* get_frame calls recorded since the last clear
MaxRateTime == 50    \* time for which the two tick sources are followed side by side

\* ---------------------------------------------------------------- state
VARIABLES
    capacity,    \* self.capacity
    nFrames,     \* what animator.n_frames() returns
    bad,         \* indices for which animator.render_frame_at raises
    buffer,      \* self.buffer: the set of cached indices (keys of the dict)
    target,      \* self.target: None or <<idx>>
    running,     \* self.running
    thread,      \* self.thread: "None" or "Thread"
    lock,        \* holder of self.lock: "free" or "worker"
    waiting,     \* the background loop is in the condition's waiter list
    wpc,         \* position of the background loop
    wTarget,     \* _worker local: target
    wStart,      \* _worker local: start
    wEnd,        \* _worker local: end
    wI,          \* _worker local: i (loop variable of `for i in desired`)
    ctl,         \* position of the thread that calls start()/stop()
    raised,      \* an exception has propagated to a caller
    got,         \* result of the last get() since the last start()/stop(): "hit", "miss" or "none"
    lastReq,     \* history: argument of the last request(), <<>> if none
    repeated,    \* history: the last request() repeated the previous argument
    joinedOnce,  \* history: some stop() has joined a background loop and returned
    idleStopped, \* history: since the last effective start(), a stop() that found
                 \* no thread has returned
    staleSet,    \* history: indices whose frame was rendered by an animator that
                 \* has since been replaced
    \* Worker (Heatmap_Project/worker.py); time in units of 1/64 s
    cpc,         \* position of Worker.run
    cNow,        \* time.perf_counter()
    cNext,       \* run local: next_time
    cPeriod,     \* run local: period
    cFps,        \* self.fps
    cPlaying,    \* self._playing
    cRunning,    \* self._running
    cLastReport, \* run local: last_report
    cFrames,     \* run local: frames
    cReport,     \* value of the last fpsReport signal (frames per second), -1 before any
    cIterTicks,  \* history: tick signals emitted by the current loop iteration
    cSched,      \* history: outcome of the last scheduling step: "none", "slept", "reset"
    \* Animator (Heatmap_Project/animator.py)
    frameIdx,    \* self.frame_idx
    trailLen,    \* self.trail_len
    leftCoords,  \* self.coords_left
    rightCoords, \* self.coords_right
    leftSeq,     \* self.left_seq
    rightSeq,    \* self.right_seq
    params,      \* self.params: wFinal, hFinal, margin, legendWidth, radius
    kernels,     \* <<self.K_left, self.K_right>>
    leftTrail,   \* self.left_trail
    rightTrail,  \* self.right_trail
    appended,    \* history: <<left cop, right cop>> of every get_frame since the last clear
    drawn,       \* markers drawn by the last get_frame: <<kind, side, point, radius>>
    composite,   \* outcome of the last get_frame: size of the frame and the two
                 \* rendered sides, <<>> before any
    copArgs,     \* a call of compute_cop: <<pressures, coords>>, <<>> if none
    copOut,      \* what that call returned: <<cop>>, <<>> before it returns
    \* HeatmapWorker (video_gait_analyzer/core/heatmap_adapter.py)
    hwRunning,   \* self._running
    playing,     \* self._playing
    timer,       \* self._timer: "None", "inactive" or "active"
    interval,    \* interval of the QTimer in ms
    hwFps,       \* self.fps
    hpc,         \* position of the slot being executed on the worker's Qt thread
    lastSlot,    \* history: the slot that ran last
    lastArg,     \* history: argument of the last seek()
    fpsArg,      \* history: argument of the last set_fps(), -1 before any
    emitSrc,     \* history: source of the last frame_ready: "none", "cache", "direct"
    emitCount,   \* history: frame_ready signals emitted by the current or last slot
    apc          \* HeatmapAdapter.set_data: "idle", or "assigned" between lines 329 and 331

vars == <<capacity, nFrames, bad, buffer, target, running, thread, lock, waiting,
          wpc, wTarget, wStart, wEnd, wI, ctl, raised, got, lastReq, repeated,
          joinedOnce, idleStopped, staleSet,
          cpc, cNow, cNext, cPeriod, cFps, cPlaying, cRunning, cLastReport, cFrames, cReport, cIterTicks, cSched,
          frameIdx, trailLen, leftCoords, rightCoords, leftSeq, rightSeq, params, kernels,
          leftTrail, rightTrail, appended, drawn, composite, copArgs, copOut,
          hwRunning, playing, timer, interval, hwFps, hpc, lastSlot, lastArg, fpsArg, emitSrc, emitCount, apc>>

config == <<capacity, nFrames, bad>>
wlocals == <<wTarget, wStart, wEnd, wI>>
hist == <<lastReq, repeated>>
stops == <<joinedOnce, idleStopped>>
clockVars == <<cpc, cNow, cNext, cPeriod, cFps, cPlaying, cRunning, cLastReport, cFrames, cReport, cIterTicks, cSched>>
copVars == <<copArgs, copOut>>
animData == <<trailLen, leftCoords, rightCoords, leftSeq, rightSeq, params, kernels, copVars>>
animVars == <<frameIdx, animData, leftTrail, rightTrail, appended, drawn, composite>>
hwVars == <<hwRunning, playing, timer, interval, hwFps, hpc, lastSlot, lastArg, fpsArg, emitSrc, emitCount, apc>>
preVars == <<capacity, nFrames, bad, buffer, target, running, thread, lock, waiting,
             wpc, wTarget, wStart, wEnd, wI, ctl, raised, got, lastReq, repeated,
             joinedOnce, idleStopped, staleSet>>

None == <<>>

Max(a, b) == IF a >= b THEN a ELSE b
Min(a, b) == IF a <= b THEN a ELSE b

\* inputs
Targets == (0 - 1)..MaxTarget
BadChoices(n) == {{}, {1} \cap (0..(n - 1)), 0..(n - 1)}

\* ---------------------------------------------------------------- helpers
\* __init__: self.capacity = max(1, int(capacity))
InitCapacity(c) == Max(1, c)

\* _worker: half = max(1, self.capacity // 2); start = max(0, target - half // 2)
WindowStartCentered(t, c) == Max(0, t - (c \div 2))
WindowStart(t, c) == Max(0, t - (Max(1, c \div 2) \div 2))

\* _worker: end = min(n, start + self.capacity)
WindowEndShort(s, c, n) == Min(n - 1, s + c)
WindowEnd(s, c, n) == Min(n, s + c)

\* _worker eviction: keep k unless k < start or k >= end
EvictKeepOffByOne(buf, s, e) == {k \in buf : ~(k < s \/ k > e)}
EvictKeep(buf, s, e) == {k \in buf : ~(k < s \/ k >= e)}

\* request: self.target = int(idx)
RequestTargetFirstWins(old, idx) == IF old = None THEN <<idx>> ELSE old
RequestTarget(old, idx) == <<idx>>

\* get: self.buffer.get(int(idx), None)
GetHit(buf, idx) == idx \in buf

\* stop: `if self.thread is not None`
StopNeedsJoinAlways(th) == TRUE
StopNeedsJoin(th) == th # "None"

\* ---------------------------------------------------------------- init
InitWith(caps, frames) ==
    /\ capacity \in {InitCapacity(c) : c \in caps}
    /\ nFrames \in frames
    /\ buffer = {}
    /\ target = None
    /\ running = FALSE
    /\ thread = "None"
    /\ lock = "free"
    /\ waiting = FALSE
    /\ wpc = "nothread"
    /\ wTarget = 0 /\ wStart = 0 /\ wEnd = 0 /\ wI = 0
    /\ ctl = "idle"
    /\ raised = FALSE
    /\ got = "none"
    /\ lastReq = None
    /\ repeated = FALSE
    /\ joinedOnce = FALSE
    /\ idleStopped = FALSE
    /\ staleSet = {}

\* components that are not constructed in a specification stay in these states
NoClock ==
    /\ cpc = "notrun" /\ cNow = 0 /\ cNext = 0 /\ cPeriod = 0 /\ cFps = 0
    /\ cPlaying = FALSE /\ cRunning = FALSE /\ cLastReport = 0 /\ cFrames = 0
    /\ cReport = 0 - 1
    /\ cIterTicks = 0 /\ cSched = "none"
NoCopCall == copArgs = <<>> /\ copOut = <<>>
NoAnimatorObject ==
    /\ frameIdx = 0 /\ trailLen = 0
    /\ leftCoords = <<>> /\ rightCoords = <<>> /\ leftSeq = <<>> /\ rightSeq = <<>>
    /\ params = <<>> /\ kernels = <<>>
    /\ leftTrail = <<>> /\ rightTrail = <<>> /\ appended = <<>> /\ drawn = {}
    /\ composite = <<>>
NoAnimator == NoAnimatorObject /\ NoCopCall
NoHeatmapWorker ==
    /\ hwRunning = FALSE /\ playing = FALSE /\ timer = "None" /\ interval = 0
    /\ hwFps = 0 /\ hpc = "idle" /\ lastSlot = "none" /\ lastArg = 0
    /\ fpsArg = 0 - 1
    /\ emitSrc = "none" /\ emitCount = 0 /\ apc = "idle"

Init == /\ InitWith(0..MaxCapacity, 0..MaxFrames)
        /\ bad \in BadChoices(nFrames)
        /\ NoClock /\ NoAnimator /\ NoHeatmapWorker

\* ---------------------------------------------------------------- callers
\* start(): no-op when running, else set the flag and spawn the thread
StartBody(spawns) ==
    /\ ctl = "idle"
    /\ IF running
         THEN UNCHANGED <<running, thread, wpc, got, idleStopped>>
         ELSE /\ running' = TRUE
              /\ IF spawns
                   THEN thread' = "Thread" /\ wpc' = "top_acq"
                   ELSE UNCHANGED <<thread, wpc>>
              /\ got' = "none"
              /\ idleStopped' = FALSE
    /\ UNCHANGED <<config, staleSet, buffer, target, lock, waiting, wlocals, ctl, raised, hist, joinedOnce>>
StartNoSpawn == StartBody(FALSE) /\ UNCHANGED <<clockVars, animVars, hwVars>>
Start == StartBody(TRUE) /\ UNCHANGED <<clockVars, animVars, hwVars>>

\* stop(), first part: with self.cond: running = False; notify_all()
StopFlagBody(notifies) ==
    /\ ctl = "idle"
    /\ lock = "free"
    /\ running' = FALSE
    /\ waiting' = IF notifies THEN FALSE ELSE waiting
    /\ ctl' = "join"
    /\ UNCHANGED <<config, staleSet, buffer, target, thread, lock, wpc, wlocals, raised, got, hist, stops>>
StopFlagNoNotify == StopFlagBody(FALSE) /\ UNCHANGED <<clockVars, animVars, hwVars>>
StopFlag == StopFlagBody(TRUE) /\ UNCHANGED <<clockVars, animVars, hwVars>>

\* stop(), second part: if self.thread is not None: join(); self.thread = None
StopReturn(buf, joined) ==
    /\ ctl' = "idle"
    /\ buffer' = buf
    /\ got' = "none"
    /\ joinedOnce' = (joinedOnce \/ joined)
    /\ idleStopped' = (idleStopped \/ ~joined)
StopJoinBody(needsJoin, waitsForExit, buf) ==
    /\ ctl = "join"
    /\ IF needsJoin
         THEN IF thread = "None"
                THEN \* None.join(): AttributeError propagates to the caller
                     /\ raised' = TRUE
                     /\ StopReturn(buffer, FALSE)
                     /\ UNCHANGED <<thread, wpc, wlocals>>
                ELSE IF waitsForExit
                       THEN \* join() blocks until the thread has exited
                            /\ wpc = "exited"
                            /\ thread' = "None"
                            /\ wpc' = "nothread"
                            /\ wTarget' = 0 /\ wStart' = 0 /\ wEnd' = 0 /\ wI' = 0
                            /\ StopReturn(buf, TRUE)
                            /\ UNCHANGED raised
                       ELSE /\ thread' = "None"
                            /\ StopReturn(buf, TRUE)
                            /\ UNCHANGED <<wpc, wlocals, raised>>
         ELSE /\ StopReturn(buf, FALSE)
              /\ UNCHANGED <<thread, wpc, wlocals, raised>>
    /\ UNCHANGED <<config, staleSet, target, running, lock, waiting, hist>>
StopJoinNoWait ==
    StopJoinBody(StopNeedsJoin(thread), FALSE, buffer) /\ UNCHANGED <<clockVars, animVars, hwVars>>
StopJoinClears ==
    StopJoinBody(StopNeedsJoin(thread), TRUE, {}) /\ UNCHANGED <<clockVars, animVars, hwVars>>
\* stop() called on the PreRenderer directly; in HeatmapWorker.stop it ends the slot
StopJoin ==
    /\ hpc = "idle"
    /\ StopJoinBody(StopNeedsJoin(thread), TRUE, buffer)
    /\ UNCHANGED <<clockVars, animVars, hwVars>>

\* request(idx): with self.cond: self.target = int(idx); notify()
\* request() without line 51: the target is stored, nobody is notified
RequestBodyNoNotify(idx) ==
    /\ lock = "free"
    /\ target' = RequestTarget(target, idx)
    /\ UNCHANGED waiting
    /\ lastReq' = <<idx>>
    /\ repeated' = (lastReq = <<idx>>)
RequestBody(idx) ==
    /\ lock = "free"
    /\ target' = RequestTarget(target, idx)
    /\ waiting' = FALSE
    /\ lastReq' = <<idx>>
    /\ repeated' = (lastReq = <<idx>>)
Request(idx) ==
    /\ RequestBody(idx)
    /\ UNCHANGED <<config, staleSet, buffer, running, thread, lock, wpc, wlocals, ctl, raised, got, stops>>
    /\ UNCHANGED <<clockVars, animVars, hwVars>>

\* get(idx): with self.lock: return self.buffer.get(int(idx), None)
GetBody(idx) ==
    /\ lock = "free"
    /\ got' = IF GetHit(buffer, idx) THEN "hit" ELSE "miss"
Get(idx) ==
    /\ GetBody(idx)
    /\ UNCHANGED <<config, staleSet, buffer, target, running, thread, lock, waiting, wpc, wlocals,
                   ctl, raised, hist, stops>>
    /\ UNCHANGED <<clockVars, animVars, hwVars>>

\* ---------------------------------------------------------------- _worker
callerSide == <<ctl, raised, got, hist, stops, running, thread>>

\* line 61: with self.cond (acquire)
WAcquireTop ==
    /\ wpc = "top_acq" /\ lock = "free"
    /\ lock' = "worker" /\ wpc' = "top"
    /\ UNCHANGED <<clockVars, animVars, hwVars, config, staleSet, buffer, target, waiting, wlocals, callerSide>>

\* lines 62-66: while running and target is None: wait(); if not running: break
WTop ==
    /\ wpc = "top" /\ lock = "worker"
    /\ lock' = "free"
    /\ IF running /\ target = None
         THEN /\ wpc' = "wait1" /\ waiting' = TRUE /\ UNCHANGED wTarget
         ELSE IF ~running
                THEN /\ wpc' = "exited" /\ UNCHANGED <<waiting, wTarget>>
                ELSE /\ wpc' = "window" /\ wTarget' = target[1] /\ UNCHANGED waiting
    /\ UNCHANGED <<clockVars, animVars, hwVars, config, staleSet, buffer, target, wStart, wEnd, wI, callerSide>>

\* line 63: cond.wait() returns once notified and the lock is re-acquired
WWake1 ==
    /\ wpc = "wait1" /\ ~waiting /\ lock = "free"
    /\ lock' = "worker" /\ wpc' = "top"
    /\ UNCHANGED <<clockVars, animVars, hwVars, config, staleSet, buffer, target, waiting, wlocals, callerSide>>

\* lines 68-76: n = n_frames(); window
WWindow ==
    /\ wpc = "window"
    /\ IF nFrames <= 0
         THEN /\ wpc' = "sleep" /\ UNCHANGED <<wStart, wEnd, wI>>
         ELSE /\ wStart' = WindowStart(wTarget, capacity)
              /\ wEnd' = WindowEnd(WindowStart(wTarget, capacity), capacity, nFrames)
              /\ wI' = WindowStart(wTarget, capacity)
              /\ wpc' = "for"
    /\ UNCHANGED <<clockVars, animVars, hwVars, config, staleSet, buffer, target, lock, waiting, wTarget, callerSide>>

\* lines 70-71: time.sleep(0.05); continue
WSleep ==
    /\ wpc = "sleep"
    /\ wpc' = "top_acq"
    /\ UNCHANGED <<clockVars, animVars, hwVars, config, staleSet, buffer, target, lock, waiting, wlocals, callerSide>>

\* line 78-79: next i of desired (with self.lock), or lines 91: eviction block
WFor ==
    /\ wpc = "for" /\ lock = "free"
    /\ lock' = "worker"
    /\ wpc' = IF wI < wEnd THEN "check" ELSE "evict"
    /\ UNCHANGED <<clockVars, animVars, hwVars, config, staleSet, buffer, target, waiting, wlocals, callerSide>>

\* line 80-81: need = i not in self.buffer (lock released on leaving the block)
WCheckBody(release) ==
    /\ wpc = "check" /\ lock = "worker"
    /\ lock' = IF release THEN "free" ELSE lock
    /\ IF wI \notin buffer
         THEN wpc' = "render" /\ UNCHANGED wI
         ELSE wpc' = "for" /\ wI' = wI + 1
    /\ UNCHANGED <<clockVars, animVars, hwVars, config, staleSet, buffer, target, waiting, wTarget, wStart, wEnd, callerSide>>
WCheckHoldsLock == WCheckBody(FALSE)
WCheck == WCheckBody(TRUE)

\* lines 82-87: frm = render_frame_at(i); except Exception: continue
WRenderBody(onError) ==
    /\ wpc = "render"
    /\ IF wI \in bad
         THEN /\ wpc' = onError
              /\ wI' = IF onError = "for" THEN wI + 1 ELSE wI
              /\ UNCHANGED lock
         ELSE /\ lock = "free"
              /\ lock' = "worker"
              /\ wpc' = "commit"
              /\ UNCHANGED wI
    /\ UNCHANGED <<clockVars, animVars, hwVars, config, staleSet, buffer, target, waiting, wTarget, wStart, wEnd, callerSide>>
WRenderDies == WRenderBody("exited")
WRender == WRenderBody("for")

\* line 88: self.buffer[i] = frm
WCommit ==
    /\ wpc = "commit" /\ lock = "worker"
    /\ buffer' = buffer \cup {wI}
    /\ lock' = "free"
    /\ wI' = wI + 1
    /\ wpc' = "for"
    /\ UNCHANGED <<clockVars, animVars, hwVars, config, staleSet, target, waiting, wTarget, wStart, wEnd, callerSide>>

\* lines 91-95: evict keys outside the window
WEvict ==
    /\ wpc = "evict" /\ lock = "worker"
    /\ buffer' = EvictKeep(buffer, wStart, wEnd)
    /\ lock' = "free"
    /\ wpc' = "passdone"
    /\ staleSet' = staleSet \cap EvictKeep(buffer, wStart, wEnd)
    /\ UNCHANGED <<clockVars, animVars, hwVars, config, target, waiting, wlocals, callerSide>>

\* line 97: with self.cond (acquire)
WPassDone ==
    /\ wpc = "passdone" /\ lock = "free"
    /\ lock' = "worker" /\ wpc' = "tail"
    /\ UNCHANGED <<clockVars, animVars, hwVars, config, staleSet, buffer, target, waiting, wlocals, callerSide>>

\* lines 98-100: if self.target == target: cond.wait(timeout=0.02)
WTail ==
    /\ wpc = "tail" /\ lock = "worker"
    /\ lock' = "free"
    /\ IF target = <<wTarget>>
         THEN wpc' = "wait2" /\ waiting' = TRUE
         ELSE wpc' = "top_acq" /\ UNCHANGED waiting
    /\ UNCHANGED <<clockVars, animVars, hwVars, config, staleSet, buffer, target, wlocals, callerSide>>

\* line 100: the timed wait returns on notify or on timeout
WWake2 ==
    /\ wpc = "wait2" /\ lock = "free"
    /\ waiting' = FALSE
    /\ wpc' = "top_acq"
    /\ UNCHANGED <<clockVars, animVars, hwVars, config, staleSet, buffer, target, lock, wlocals, callerSide>>

Worker ==
    \/ WAcquireTop \/ WTop \/ WWake1 \/ WWindow \/ WSleep \/ WFor \/ WCheck
    \/ WRender \/ WCommit \/ WEvict \/ WPassDone \/ WTail \/ WWake2

Next ==
    \/ Start
    \/ StopFlag
    \/ StopJoin
    \/ \E idx \in Targets : Request(idx)
    \/ \E idx \in Targets : Get(idx)
    \/ Worker

Spec == Init /\ [][Next]_vars

\* the thread scheduler is fair to the background loop (every render call
\* returns, every wait with a timeout ends) and to a caller blocked in join()
InitLive == /\ InitWith(0..MaxLiveCapacity, 0..MaxLiveFrames)
            /\ bad \in BadChoices(nFrames)
            /\ NoClock /\ NoAnimator /\ NoHeatmapWorker

NextLive ==
    \/ Start
    \/ StopFlag
    \/ StopJoin
    \/ \E idx \in Targets : Request(idx)
    \/ Worker

FairSpec == InitLive /\ [][NextLive]_vars /\ WF_vars(Worker) /\ WF_vars(StopJoin)

\* ---------------------------------------------------------------- scenario
\* PreRenderer(animator, capacity=8) over a sequence of 104 or 106 frames (or
\* none) whose renders all succeed; requests for index 100 and index 50
InitE2E == /\ InitWith({8}, {0, 104, 106})
           /\ bad = {}
           /\ NoClock /\ NoAnimator /\ NoHeatmapWorker

NextE2E ==
    \/ Start
    \/ StopFlag
    \/ StopJoin
    \/ Request(100)
    \/ Request(50)
    \/ \E idx \in {50, 96, 98, 103, 105} : Get(idx)
    \/ Worker

SpecE2E == InitE2E /\ [][NextE2E]_vars

\* a complete fill pass for request(100) with capacity 8 and at least 104 frames
E2EPassDone == wpc = "passdone" /\ wTarget = 100 /\ capacity = 8 /\ nFrames >= 104 /\ bad = {}

\* C7 (as stated): after request(100) and one complete fill pass, get(i) is a
\* hit for every i from 96 through 103 and get(50) is a miss.
C7_Original ==
    E2EPassDone => ((\A i \in 96..103 : GetHit(buffer, i)) /\ ~GetHit(buffer, 50))
\* C7 (amended): after request(100) and one complete fill pass, get(i) is a
\* hit for every i from 98 through 103 (and for 104, 105 when the sequence has
\* them: the window is [98, 106) cut at n_frames); get(96), get(97) and
\* get(50) are misses.
C7_WindowFor100 ==
    E2EPassDone =>
        /\ \A i \in 98..103 : GetHit(buffer, i)
        /\ \A i \in 104..105 : GetHit(buffer, i) <=> i < nFrames
        /\ \A i \in {50, 96, 97, 106} : ~GetHit(buffer, i)
\* the pass for 100 is complete and a get() since start() returned a frame
C7_Witness == E2EPassDone /\ got = "hit" /\ lastReq = <<100>>

\* ---------------------------------------------------------------- Worker (tick clock)
\* Heatmap_Project/worker.py.  Time is counted in units of 1/64 s, so that the
\* fallback period 1.0/64.0 is one unit; the rates are divisors of 64.
ClockRates == {0, 2, 4}
SliderRates == ClockRates \ {0}

\* period = 1.0 / float(self.fps), and 1.0 / 64.0 when that raises (fps = 0)
PeriodOf(fps) == IF fps = 0 THEN 1 ELSE 64 \div fps

\* Worker.__init__
InitClock ==
    /\ cpc = "notrun" /\ cNow = 0 /\ cNext = 0 /\ cPeriod = 0
    /\ cFps \in ClockRates
    /\ cPlaying = FALSE /\ cRunning = TRUE
    /\ cLastReport = 0 /\ cFrames = 0 /\ cReport = 0 - 1 /\ cIterTicks = 0
    /\ cSched = "none"

\* run(), lines 34-36: next_time = perf_counter(); last_report = next_time; frames = 0
ClockRun ==
    /\ cpc = "notrun"
    /\ cpc' = "top"
    /\ cNext' = cNow
    /\ cLastReport' = cNow
    /\ cFrames' = 0
    /\ UNCHANGED <<cNow, cPeriod, cFps, cPlaying, cRunning, cReport, cIterTicks, cSched>>
    /\ UNCHANGED <<preVars, animVars, hwVars>>

\* run(), lines 37-42: while self._running: period = 1.0 / float(self.fps)
ClockTopBody(period) ==
    /\ cpc = "top"
    /\ IF cRunning
         THEN cpc' = "emit" /\ cPeriod' = period /\ cIterTicks' = 0
         ELSE cpc' = "done" /\ UNCHANGED <<cPeriod, cIterTicks>>
    /\ UNCHANGED <<cNow, cNext, cFps, cPlaying, cRunning, cLastReport, cFrames, cReport, cSched>>
    /\ UNCHANGED <<preVars, animVars, hwVars>>
ClockTopKeepsPeriod == ClockTopBody(IF cPeriod = 0 THEN PeriodOf(cFps) ELSE cPeriod)
ClockTop == ClockTopBody(PeriodOf(cFps))

\* run(), lines 43-45: if self._playing: self.tick.emit(); frames += 1
ClockEmit ==
    /\ cpc = "emit"
    /\ cpc' = "sched"
    /\ IF cPlaying
         THEN cIterTicks' = cIterTicks + 1 /\ cFrames' = cFrames + 1
         ELSE UNCHANGED <<cIterTicks, cFrames>>
    /\ UNCHANGED <<cNow, cNext, cPeriod, cFps, cPlaying, cRunning, cLastReport, cReport, cSched>>
    /\ UNCHANGED <<preVars, animVars, hwVars>>

\* run(), lines 46-52: next_time += period; sleep until next_time when it lies
\* ahead, else next_time = perf_counter()
ClockScheduleBody(resets) ==
    /\ cpc = "sched"
    /\ cpc' = "report"
    /\ IF cNext + cPeriod - cNow > 0
         THEN /\ cNext' = cNext + cPeriod
              /\ cSched' = "slept"
              /\ \E late \in 0..MaxOversleep :
                    /\ cNext + cPeriod + late <= MaxTime
                    /\ cNow' = cNext + cPeriod + late
         ELSE /\ cNext' = IF resets THEN cNow ELSE cNext + cPeriod
              /\ cNow' = cNow
              /\ cSched' = "reset"
    /\ UNCHANGED <<cPeriod, cFps, cPlaying, cRunning, cLastReport, cFrames, cReport, cIterTicks>>
    /\ UNCHANGED <<preVars, animVars, hwVars>>
ClockScheduleNoReset == ClockScheduleBody(FALSE)
ClockSchedule == ClockScheduleBody(TRUE)

\* run(), lines 54-59: fpsReport.emit(frames / elapsed) once a second has passed
ClockReport ==
    /\ cpc = "report"
    /\ cpc' = "top"
    /\ IF cNow - cLastReport >= 64
         THEN /\ cReport' = (cFrames * 64) \div (cNow - cLastReport)
              /\ cLastReport' = cNow
              /\ cFrames' = 0
         ELSE UNCHANGED <<cReport, cLastReport, cFrames>>
    /\ UNCHANGED <<cNow, cNext, cPeriod, cFps, cPlaying, cRunning, cIterTicks, cSched>>
    /\ UNCHANGED <<preVars, animVars, hwVars>>

\* the thread is delayed inside an iteration (perf_counter() read at lines 47,
\* 52, 54 later than the statement before it)
ClockStall(d) ==
    /\ cpc \in {"emit", "sched", "report"}
    /\ cNow + d <= MaxTime
    /\ cNow' = cNow + d
    /\ UNCHANGED <<cpc, cNext, cPeriod, cFps, cPlaying, cRunning, cLastReport, cFrames,
                   cReport, cIterTicks, cSched>>
    /\ UNCHANGED <<preVars, animVars, hwVars>>

\* gui.set_playback_speed: self.worker.fps = val, from the GUI thread
ClockSetFps(val) ==
    /\ cpc \notin {"notrun", "done"}
    /\ val # cFps
    /\ cFps' = val
    /\ UNCHANGED <<cpc, cNow, cNext, cPeriod, cPlaying, cRunning, cLastReport, cFrames,
                   cReport, cIterTicks, cSched>>
    /\ UNCHANGED <<preVars, animVars, hwVars>>

\* play(p): self._playing = bool(p)
ClockPlay(p) ==
    /\ cpc \notin {"notrun", "done"}
    /\ p # cPlaying
    /\ cPlaying' = p
    /\ UNCHANGED <<cpc, cNow, cNext, cPeriod, cFps, cRunning, cLastReport, cFrames,
                   cReport, cIterTicks, cSched>>
    /\ UNCHANGED <<preVars, animVars, hwVars>>

\* stop(): self._running = False
ClockStop ==
    /\ cpc \notin {"notrun", "done"}
    /\ cRunning
    /\ cRunning' = FALSE
    /\ UNCHANGED <<cpc, cNow, cNext, cPeriod, cFps, cPlaying, cLastReport, cFrames,
                   cReport, cIterTicks, cSched>>
    /\ UNCHANGED <<preVars, animVars, hwVars>>

NoPreRenderer == InitWith({0}, {0}) /\ bad = {}

InitClockSpec == InitClock /\ NoPreRenderer /\ NoAnimator /\ NoHeatmapWorker
NextClock ==
    \/ ClockRun
    \/ ClockTop
    \/ ClockEmit
    \/ ClockSchedule
    \/ ClockReport
    \/ ClockStall(MaxStall)
    \/ \E val \in SliderRates : ClockSetFps(val)
    \/ \E p \in BOOLEAN : ClockPlay(p)
    \/ ClockStop
SpecClock == InitClockSpec /\ [][NextClock]_vars

\* ---------------------------------------------------------------- Animator
\* Heatmap_Project/animator.py with compute_cop of Heatmap_Project/heatmap.py.
\* A composite frame is abstracted to the markers drawn on it; a side's image
\* is not represented, its centre of pressure is.
Sentinel == <<0, 0>>

\* sensor layouts: none, and two sensors
Layouts == {<<>>, <<<<1, 1>>, <<4, 3>>>>}
\* pressure sequences: none; one frame of zero pressure; a loaded frame and a
\* zero one; both sensors loaded, a frame shorter than the layout, a longer one
SeqChoices == {<<>>, <<<<0, 0>>>>, <<<<1, 0>>, <<0, 0>>>>, <<<<1, 1>>, <<1>>, <<0, 1, 1>>>>}

\* ps padded with zeros or cut to the number of sensors (heatmap.py 39-45)
PadTrim(ps, n) == [j \in 1..n |-> IF j <= Len(ps) THEN ps[j] ELSE 0]

RECURSIVE SumTo(_, _)
SumTo(f, n) == IF n = 0 THEN 0 ELSE f[n] + SumTo(f, n - 1)

\* int(round(num / den)) for den > 0: Python rounds halves to the even integer
RoundHalfEven(num, den) ==
    LET q == num \div den
        r == num % den
    IN  IF 2 * r < den THEN q
        ELSE IF 2 * r > den THEN q + 1
        ELSE IF q % 2 = 0 THEN q ELSE q + 1

\* compute_cop with int(x) in place of int(round(x))
ComputeCopTruncates(pressures, coords) ==
    IF Len(coords) = 0
      THEN Sentinel
      ELSE LET n == Len(coords)
               ps == PadTrim(pressures, n)
               s == SumTo(ps, n)
           IN  IF s <= 0
                 THEN Sentinel
                 ELSE <<SumTo([j \in 1..n |-> coords[j][1] * ps[j]], n) \div s,
                        SumTo([j \in 1..n |-> coords[j][2] * ps[j]], n) \div s>>
\* compute_cop(pressures, coords)
ComputeCop(pressures, coords) ==
    IF Len(coords) = 0
      THEN Sentinel
      ELSE LET n == Len(coords)
               ps == PadTrim(pressures, n)
               s == SumTo(ps, n)
           IN  IF s <= 0
                 THEN Sentinel
                 ELSE <<RoundHalfEven(SumTo([j \in 1..n |-> coords[j][1] * ps[j]], n), s),
                        RoundHalfEven(SumTo([j \in 1..n |-> coords[j][2] * ps[j]], n), s)>>

\* compute_cop on its own: every pressure frame of up to MaxCopLen readings,
\* each below zero, zero or above, over no sensors, one sensor or two
MaxCopLen == 3
CopReadings == {0 - 1, 0, 1, 2}
CopFrames == UNION {[1..k -> CopReadings] : k \in 0..MaxCopLen}
CopLayouts == Layouts \cup {<<<<2, 5>>>>}
InitCop ==
    /\ copArgs \in CopFrames \X CopLayouts
    /\ copOut = <<>>
CopReturn ==
    /\ copArgs # <<>> /\ copOut = <<>>
    /\ copOut' = <<ComputeCop(copArgs[1], copArgs[2])>>
    /\ UNCHANGED copArgs
    /\ UNCHANGED <<frameIdx, trailLen, leftCoords, rightCoords, leftSeq, rightSeq, params,
                   kernels, leftTrail, rightTrail, appended, drawn, composite>>
    /\ UNCHANGED <<preVars, clockVars, hwVars>>
InitCopSpec == InitCop /\ NoAnimatorObject /\ NoPreRenderer /\ NoClock /\ NoHeatmapWorker
NextCop == CopReturn
SpecCop == InitCopSpec /\ [][NextCop]_vars

\* n_frames(): max(len(left_seq), len(right_seq))
NFrames(left, right) == Max(Len(left), Len(right))

\* the centre of pressure returned by _render_side(seq, K, coords)
RenderSideCop(seq, coords, idx) ==
    IF Len(seq) = 0 \/ Len(coords) = 0
      THEN Sentinel
      ELSE ComputeCop(seq[(idx % Len(seq)) + 1], coords)

\* deque(maxlen).append(pt): a full deque discards its oldest element
DequeAppendDropsNewest(trail, pt, maxlen) ==
    IF Len(trail) < maxlen THEN Append(trail, pt) ELSE trail
DequeAppend(trail, pt, maxlen) ==
    IF maxlen = 0 THEN <<>>
    ELSE IF Len(trail) < maxlen THEN Append(trail, pt)
    ELSE Append(Tail(trail), pt)

\* radius of the i-th marker of a trail of n points, newest first (i = 0):
\* int(min_size + ((n - i) / n) * (max_size - min_size)), sizes 2 and 8
TrailSize(n, i) == 2 + ((n - i) * 6) \div n

\* get_frame(), lines 92-114: one circle for every point of the trail
TrailMarkers(side, trail) ==
    {<<"trail", side, trail[Len(trail) - i], TrailSize(Len(trail), i)>> : i \in 0..(Len(trail) - 1)}

\* get_frame(), lines 115-120: the current centre of pressure, unless it is (0, 0)
CopMarkers(side, cop) == IF cop # Sentinel THEN {<<"cop", side, cop, 8>>} ELSE {}

\* params: the defaults of main.py and a small frame, each with a radius
\* below zero, zero and above zero
ParamChoices ==
    {[wFinal |-> sz[1], hFinal |-> sz[2], margin |-> sz[3], legendWidth |-> sz[4], radius |-> r] :
        sz \in {<<175, 520, 50, 80>>, <<4, 6, 0, 2>>}, r \in {0 - 1, 0, 70}}
\* the defaults of HeatmapAdapter.__init__
AdapterParams == [wFinal |-> 175, hFinal |-> 520, margin |-> 50, legendWidth |-> 80, radius |-> 70]

\* precompute_kernels(coords, ..., radius, smooth): one row per sensor, weights
\* exp(-smooth * dist2 / radius2).  numpy divides by radius2 = 0 without
\* raising (inf or nan with a RuntimeWarning), so the weights are then 0 or nan.
PrecomputeKernels(coords, radius) ==
    [rows |-> Len(coords),
     radius2 |-> radius * radius,
     weights |-> IF radius * radius = 0 THEN "zero_or_nan" ELSE "gaussian"]
\* Animator.__init__, lines 20-21: precompute_kernels(...) if coords else zeros((0, ...))
KernelFor(coords, radius) ==
    IF Len(coords) > 0
      THEN PrecomputeKernels(coords, radius)
      ELSE [rows |-> 0, radius2 |-> 0, weights |-> "none"]

\* create_colorbar(height, width): size of the image it returns
StripeW(width) == Max(8, Min(8 + 4, Max(4, width - 8)))
ColorbarW(width) == 3 + StripeW(width) + (width - StripeW(width) + 6)
ColorbarH(height) == height + 6 + 4

\* get_frame(), lines 65-76: size of the composite
FinalH(pr) == Max(pr.hFinal, ColorbarH(pr.hFinal)) + pr.margin * 2
FinalW(pr) == pr.wFinal * 2 + pr.margin * 3 + ColorbarW(pr.legendWidth)

\* MainWindow.__init__, lines 21-29: the size image_label is fixed to
ViewerW(pr) == pr.wFinal * 2 + pr.margin * 3 + pr.legendWidth
ViewerH(pr) == pr.hFinal + pr.margin * 2

\* the frame as it comes, neither padded nor cut
SidePressuresRaw(frame, rows) == frame
\* _render_side, lines 43-51: p padded with zeros or cut to K.shape[0]
SidePressures(frame, rows) == [j \in 1..rows |-> IF j <= Len(frame) THEN frame[j] ELSE 0]

\* _render_side(seq, K, coords): the image (its kind and size), the sample
\* used, the pressures multiplied with K, and the centre of pressure; p.dot(K)
\* raises when the length of p is not the number of rows of K
RenderSide(seq, kernel, coords, idx, pr) ==
    IF Len(seq) = 0 \/ kernel.rows = 0
      THEN [kind |-> "blank", h |-> pr.hFinal, w |-> pr.wFinal, sample |-> 0 - 1,
            raw |-> <<>>, p |-> <<>>, cop |-> Sentinel]
      ELSE LET sample == idx % Len(seq)
               frame == seq[sample + 1]
               p == SidePressures(frame, kernel.rows)
           IN  [kind |-> IF Len(p) = kernel.rows THEN "heatmap" ELSE "raised",
                h |-> pr.hFinal, w |-> pr.wFinal, sample |-> sample,
                raw |-> frame, p |-> p, cop |-> RenderSideCop(seq, coords, idx)]

\* Animator.__init__
InitAnimatorWith(lengths, layouts, choices) ==
    /\ frameIdx = 0
    /\ trailLen \in lengths
    /\ leftCoords \in layouts /\ rightCoords \in layouts
    /\ leftSeq = <<>> /\ rightSeq = <<>>
    /\ params \in choices
    /\ kernels = <<KernelFor(leftCoords, params.radius), KernelFor(rightCoords, params.radius)>>
    /\ leftTrail = <<>> /\ rightTrail = <<>>
    /\ appended = <<>> /\ drawn = {}
    /\ composite = <<>>
    /\ NoCopCall
InitAnimator == InitAnimatorWith(0..MaxTrail, Layouts, ParamChoices)

\* load_sequences(left_seq, right_seq)
LoadSequencesBody(left, right) ==
    /\ leftSeq' = left /\ rightSeq' = right
    /\ frameIdx' = 0
    /\ leftTrail' = <<>> /\ rightTrail' = <<>>
    /\ appended' = <<>>
    /\ UNCHANGED <<trailLen, leftCoords, rightCoords, params, kernels, copVars, drawn, composite>>

\* reset()
ResetBody ==
    /\ frameIdx' = 0
    /\ leftTrail' = <<>> /\ rightTrail' = <<>>
    /\ appended' = <<>>
    /\ UNCHANGED <<animData, drawn, composite>>

\* get_frame()
GetFrameBody ==
    LET left == RenderSide(leftSeq, kernels[1], leftCoords, frameIdx, params)
        right == RenderSide(rightSeq, kernels[2], rightCoords, frameIdx, params)
        leftCop == left.cop
        rightCop == right.cop
        lt == DequeAppend(leftTrail, leftCop, trailLen)
        rt == DequeAppend(rightTrail, rightCop, trailLen)
    IN  /\ Len(appended) < MaxAppends
        /\ IF left.kind = "raised" \/ right.kind = "raised"
             THEN \* the exception leaves get_frame before line 62
                  /\ composite' = <<"raised", 0, 0, left, right>>
                  /\ UNCHANGED <<leftTrail, rightTrail, appended, drawn>>
             ELSE /\ leftTrail' = lt
                  /\ rightTrail' = rt
                  /\ appended' = Append(appended, <<leftCop, rightCop>>)
                  /\ drawn' = TrailMarkers("left", lt) \cup TrailMarkers("right", rt)
                                \cup CopMarkers("left", leftCop)
                                \cup CopMarkers("right", rightCop)
                  /\ composite' = <<"ok", FinalH(params), FinalW(params), left, right>>
        /\ UNCHANGED <<frameIdx, animData>>

\* step(delta): clamped to [0, max(1, n_frames()) - 1]
StepIdx(idx, delta, n) == Max(0, Min(idx + delta, Max(1, n) - 1))
StepBody(delta) ==
    /\ frameIdx' = StepIdx(frameIdx, delta, NFrames(leftSeq, rightSeq))
    /\ UNCHANGED <<animData, leftTrail, rightTrail, appended, drawn, composite>>

\* set_frame(idx): max(0, min(idx, max(0, n_frames() - 1)))
SetFrameIdx(idx, n) == Max(0, Min(idx, Max(0, n - 1)))
SetFrameBody(idx) ==
    /\ frameIdx' = SetFrameIdx(idx, NFrames(leftSeq, rightSeq))
    /\ UNCHANGED <<animData, leftTrail, rightTrail, appended, drawn, composite>>

AnimLoadSequences(left, right) ==
    LoadSequencesBody(left, right) /\ UNCHANGED <<preVars, clockVars, hwVars>>
AnimReset == ResetBody /\ UNCHANGED <<preVars, clockVars, hwVars>>
AnimGetFrame == GetFrameBody /\ UNCHANGED <<preVars, clockVars, hwVars>>
AnimStep(delta) == StepBody(delta) /\ UNCHANGED <<preVars, clockVars, hwVars>>
AnimSetFrame(idx) == SetFrameBody(idx) /\ UNCHANGED <<preVars, clockVars, hwVars>>

InitAnimatorSpec == InitAnimator /\ NoPreRenderer /\ NoClock /\ NoHeatmapWorker
NextAnimator ==
    \/ \E left \in SeqChoices, right \in SeqChoices : AnimLoadSequences(left, right)
    \/ AnimReset
    \/ AnimGetFrame
    \/ \E delta \in {0 - 1, 1} : AnimStep(delta)
    \/ \E idx \in Targets : AnimSetFrame(idx)
SpecAnimator == InitAnimatorSpec /\ [][NextAnimator]_vars

\* ---------------------------------------------------------------- HeatmapWorker
\* video_gait_analyzer/core/heatmap_adapter.py.  The slots run one at a time on
\* the worker's Qt thread; a slot that calls into the PreRenderer is cut where
\* it takes the PreRenderer's lock.  The QTimer is its state and interval.
HwRates == {0, 25, 64}
\* <<left_seq, right_seq>>: no data; two left frames and one right frame
PlayerData == {<<<<>>, <<>>>>, <<<<<<1, 0>>, <<0, 0>>>>, <<<<1, 1>>>>>>}
\* seek() arguments: below the first frame, a frame, beyond the last frame
SeekArgs == {0 - 1, 1, MaxTarget}

\* HeatmapWorker.__init__ with an animator that has its sequences loaded, and
\* the PreRenderer(animator, capacity=8) it builds
InitHeatmapWorker ==
    /\ hwRunning = FALSE /\ playing = FALSE /\ timer = "None" /\ interval = 0
    /\ hwFps = 64
    /\ hpc = "idle" /\ lastSlot = "none" /\ lastArg = 0 /\ fpsArg = 0 - 1
    /\ emitSrc = "none" /\ emitCount = 0 /\ apc = "idle"
InitPlayerWith(lengths, layouts, data) ==
    /\ frameIdx = 0
    /\ trailLen \in lengths
    /\ leftCoords \in layouts /\ rightCoords \in layouts
    /\ \E d \in data : leftSeq = d[1] /\ rightSeq = d[2]
    /\ params = AdapterParams
    /\ kernels = <<KernelFor(leftCoords, params.radius), KernelFor(rightCoords, params.radius)>>
    /\ leftTrail = <<>> /\ rightTrail = <<>> /\ appended = <<>> /\ drawn = {}
    /\ composite = <<>>
    /\ NoCopCall
    /\ InitWith({8}, {NFrames(leftSeq, rightSeq)})
    /\ bad \in {{}, 0..(nFrames - 1)}
    /\ InitHeatmapWorker

\* int(1000.0 / self.fps)
IntervalOf(fps) == 1000 \div fps

\* start()
HWStartBody(applies) ==
    /\ hpc = "idle" /\ ctl = "idle"
    /\ ~hwRunning
    /\ hwRunning' = TRUE
    /\ StartBody(TRUE)
    /\ timer' = "active"
    /\ interval' = IF applies THEN IntervalOf(hwFps) ELSE 0
    /\ UNCHANGED <<playing, hwFps, hpc, lastSlot, lastArg, fpsArg, emitSrc, emitCount, apc>>
    /\ UNCHANGED <<clockVars, animVars>>
HWStartAppliesFps == HWStartBody(TRUE)
\* _update_timer_interval() runs before _timer.start(): the timer is not active
\* yet and keeps the interval QTimer() was created with
HWStart == HWStartBody(FALSE)

\* stop() up to the `with self.cond` block of prerenderer.stop()
HWStopFlag ==
    /\ hpc = "idle" /\ ctl = "idle"
    /\ hwRunning
    /\ hwRunning' = FALSE
    /\ playing' = FALSE
    /\ timer' = "None"
    /\ interval' = 0
    /\ StopFlagBody(TRUE)
    /\ hpc' = "stop"
    /\ UNCHANGED <<hwFps, lastSlot, lastArg, fpsArg, emitSrc, emitCount, apc>>
    /\ UNCHANGED <<clockVars, animVars>>

\* stop(): the join inside prerenderer.stop()
HWStopJoin ==
    /\ hpc = "stop"
    /\ StopJoinBody(StopNeedsJoin(thread), TRUE, buffer)
    /\ hpc' = "idle"
    /\ UNCHANGED <<hwRunning, playing, timer, interval, hwFps, lastSlot, lastArg, fpsArg,
                   emitSrc, emitCount, apc>>
    /\ UNCHANGED <<clockVars, animVars>>

\* set_playing(playing)
SetPlaying(p) ==
    /\ hpc = "idle" /\ ctl = "idle"
    /\ p # playing
    /\ playing' = p
    /\ lastSlot' = "set_playing"
    /\ lastArg' = 0
    /\ IF p
         THEN /\ RequestBody(frameIdx)
              /\ UNCHANGED <<config, staleSet, buffer, running, thread, lock, wpc, wlocals, ctl,
                             raised, got, stops>>
         ELSE UNCHANGED preVars
    /\ UNCHANGED <<hwRunning, timer, interval, hwFps, hpc, fpsArg, emitSrc, emitCount, apc>>
    /\ UNCHANGED <<clockVars, animVars>>

\* set_fps(fps): self.fps = max(1.0, float(fps)); _update_timer_interval()
SetFpsBody(applies, fps) ==
    /\ hpc = "idle" /\ ctl = "idle"
    /\ fps # fpsArg
    /\ fpsArg' = fps
    /\ hwFps' = Max(1, fps)
    /\ interval' = IF applies /\ timer = "active" THEN IntervalOf(Max(1, fps)) ELSE interval
    /\ UNCHANGED <<hwRunning, playing, timer, hpc, lastSlot, lastArg, emitSrc, emitCount, apc>>
    /\ UNCHANGED <<preVars, clockVars, animVars>>
SetFpsKeepsInterval(fps) == SetFpsBody(FALSE, fps)
SetFps(fps) == SetFpsBody(TRUE, fps)

\* seek(frame_idx) up to _emit_current_frame(): animator.set_frame(frame_idx);
\* prerenderer.request(frame_idx)
Seek(idx) ==
    /\ hpc = "idle" /\ ctl = "idle"
    /\ SetFrameBody(idx)
    /\ RequestBody(idx)
    /\ hpc' = "emit"
    /\ lastSlot' = "seek"
    /\ lastArg' = idx
    /\ emitCount' = 0
    /\ UNCHANGED <<config, staleSet, buffer, running, thread, lock, wpc, wlocals, ctl, raised, got, stops>>
    /\ UNCHANGED <<hwRunning, playing, timer, interval, hwFps, fpsArg, emitSrc, apc>>
    /\ UNCHANGED clockVars

\* _on_tick() up to _emit_current_frame(): animator.step(1);
\* prerenderer.request(animator.frame_idx)
Tick ==
    /\ hpc = "idle" /\ ctl = "idle"
    /\ timer = "active"
    /\ playing
    /\ StepBody(1)
    /\ RequestBody(StepIdx(frameIdx, 1, NFrames(leftSeq, rightSeq)))
    /\ hpc' = "emit"
    /\ lastSlot' = "tick"
    /\ lastArg' = 0
    /\ emitCount' = 0
    /\ UNCHANGED <<config, staleSet, buffer, running, thread, lock, wpc, wlocals, ctl, raised, got, stops>>
    /\ UNCHANGED <<hwRunning, playing, timer, interval, hwFps, fpsArg, emitSrc, apc>>
    /\ UNCHANGED clockVars

\* _emit_current_frame(): the cached frame, else animator.get_frame(); one
\* frame_ready signal
EmitCurrentFrame ==
    /\ hpc = "emit"
    /\ GetBody(frameIdx)
    /\ IF GetHit(buffer, frameIdx)
         THEN emitSrc' = "cache" /\ UNCHANGED animVars
         ELSE emitSrc' = "direct" /\ GetFrameBody
    /\ emitCount' = emitCount + 1
    /\ hpc' = "idle"
    /\ UNCHANGED <<config, staleSet, buffer, target, running, thread, lock, waiting, wpc, wlocals,
                   ctl, raised, hist, stops>>
    /\ UNCHANGED <<hwRunning, playing, timer, interval, hwFps, lastSlot, lastArg, fpsArg, apc>>
    /\ UNCHANGED clockVars

InitPlayer == InitPlayerWith({1}, {<<<<1, 1>>, <<4, 3>>>>}, PlayerData) /\ NoClock
NextPlayer ==
    \/ HWStart
    \/ HWStopFlag
    \/ HWStopJoin
    \/ \E p \in BOOLEAN : SetPlaying(p)
    \/ \E idx \in SeekArgs : Seek(idx)
    \/ Tick
    \/ EmitCurrentFrame
    \/ Worker
SpecPlayer == InitPlayer /\ [][NextPlayer]_vars

\* ---------------------------------------------------------------- HeatmapAdapter
\* set_data(), lines 323-329, on the main thread: a new Animator with the
\* sequences loaded is assigned to worker.animator
SetDataAssignWorker(data) ==
    /\ apc = "idle"
    /\ apc' = "assigned"
    /\ LoadSequencesBody(data[1], data[2])
    /\ UNCHANGED <<hwRunning, playing, timer, interval, hwFps, hpc, lastSlot, lastArg, fpsArg,
                   emitSrc, emitCount>>
    /\ UNCHANGED <<preVars, clockVars>>

\* set_data(), lines 330-331: the same Animator is assigned to
\* worker.prerenderer.animator; no lock is taken
SetDataAssignPreRenderer ==
    /\ apc = "assigned"
    /\ apc' = "idle"
    /\ nFrames' = NFrames(leftSeq, rightSeq)
    /\ bad' \in {{}, 0..(NFrames(leftSeq, rightSeq) - 1)}
    /\ staleSet' = buffer \cup (IF wpc = "commit" THEN {wI} ELSE {})
    /\ UNCHANGED <<capacity, buffer, target, running, thread, lock, waiting, wpc, wlocals,
                   ctl, raised, got, hist, stops>>
    /\ UNCHANGED <<hwRunning, playing, timer, interval, hwFps, hpc, lastSlot, lastArg, fpsArg,
                   emitSrc, emitCount>>
    /\ UNCHANGED <<clockVars, animVars>>

NextAdapter ==
    \/ HWStart
    \/ HWStopFlag
    \/ HWStopJoin
    \/ \E p \in BOOLEAN : SetPlaying(p)
    \/ Tick
    \/ EmitCurrentFrame
    \/ Worker
    \/ \E data \in PlayerData : SetDataAssignWorker(data)
    \/ SetDataAssignPreRenderer
SpecAdapter == InitPlayer /\ [][NextAdapter]_vars

\* ---------------------------------------------------------------- rate control
\* The two tick sources and their rate setters side by side: Worker.run with
\* worker.fps assigned from the GUI thread, and HeatmapWorker's QTimer with
\* set_fps.  No data is loaded and nothing is played, so the PreRenderer
\* thread only starts, waits and exits.
InitRate ==
    /\ InitPlayerWith({1}, {<<>>}, {<<<<>>, <<>>>>})
    /\ cpc = "notrun" /\ cNow = MaxTime - MaxRateTime /\ cNext = 0 /\ cPeriod = 0
    /\ cFps \in SliderRates
    /\ cPlaying = FALSE /\ cRunning = TRUE
    /\ cLastReport = 0 /\ cFrames = 0 /\ cReport = 0 - 1 /\ cIterTicks = 0
    /\ cSched = "none"
NextRate ==
    \/ ClockRun
    \/ ClockTop
    \/ ClockEmit
    \/ ClockSchedule
    \/ ClockReport
    \/ \E val \in SliderRates : ClockSetFps(val)
    \/ ClockStop
    \/ HWStart
    \/ \E fps \in HwRates : SetFps(fps)
    \/ HWStopFlag
    \/ HWStopJoin
    \/ WAcquireTop
    \/ WTop
    \/ WWake1
SpecRate == InitRate /\ [][NextRate]_vars

\* ---------------------------------------------------------------- properties
\* the window the documentation states: [start, start + C), start = max(0, T - C/4)
DocStart(t, c) == Max(0, t - (c \div 4))
DocWindow(t, c) == DocStart(t, c)..(DocStart(t, c) + c - 1)

\* C1: immediately after a fill pass (render loop, then eviction) that used
\* target T with capacity C, every cached index lies in [start, start + C)
\* with start = max(0, T - C/4); get(i) is a miss for every i outside it.
C1_WindowAfterPass ==
    wpc = "passdone" =>
        \A i \in (0 - 1)..(MaxFrames + MaxCapacity + 1) :
            GetHit(buffer, i) => i \in DocWindow(wTarget, capacity)
\* a pass with a window that starts above 0 by the quarter offset has cached a frame
C1_Witness ==
    /\ wpc = "passdone"
    /\ buffer # {}
    /\ wStart > 0
    /\ wStart < wTarget

\* stop() has returned and start() has not been called since
Stopped == ctl = "idle" /\ ~running
PassPcs == {"for", "check", "render", "commit", "evict", "passdone"}
LockedPcs == {"top", "check", "commit", "evict", "tail"}
Removes == \E k \in buffer : k \notin buffer'

\* C2 (as stated): once stop() has returned (having joined the loop) the
\* index->frame mapping is never mutated again.
C2_Original == [][joinedOnce => buffer' = buffer]_vars
\* C2 (amended): once stop() has returned, and until start() is called again
\* on the instance, no step mutates the index->frame mapping, so two get(i)
\* made in that period give the same result.
C2_FrozenWhileStopped == [][(joinedOnce /\ Stopped) => buffer' = buffer]_vars
\* stop() has joined the loop and returned, with frames in the cache
C2_Witness == joinedOnce /\ Stopped /\ thread = "None" /\ buffer # {} /\ got = "miss"

\* C3: while the background loop executes a render it does not hold the
\* mutex; it holds it only in the presence test, the commit, the eviction and
\* the two condition blocks, so get() and request() can proceed during a render.
C3_NoLockDuringRender ==
    /\ wpc = "render" => (lock = "free" /\ ENABLED Get(wI) /\ ENABLED Request(wI))
    /\ lock = "worker" => wpc \in LockedPcs
\* a get() returned a miss while the loop is rendering
C3_Witness == wpc = "render" /\ lock = "free" /\ got = "miss"

\* C4: request() is last-write-wins: the recorded target is the argument of
\* the last request(), and a fill pass that starts reads that value and
\* computes its window from it alone.
C4_LastWriteWins ==
    /\ [](lastReq # None => target = lastReq)
    /\ [][(wpc = "top" /\ wpc' = "window") => (lastReq # None /\ wTarget' = lastReq[1])]_vars
    /\ [](wpc \in PassPcs => wStart = DocStart(wTarget, capacity))
\* a pass for the latest request has started while frames cached for an
\* earlier, different request are still in the buffer
C4_Witness ==
    /\ wpc = "for"
    /\ lastReq = <<wTarget>>
    /\ \E k \in buffer : k \notin DocWindow(wTarget, capacity)

\* the cache the loop settles on for target t: the window cut at n_frames,
\* without the indices whose render raises
SettledCache(t) ==
    {i \in DocStart(t, capacity)..(Min(nFrames, DocStart(t, capacity) + capacity) - 1) :
        i \notin bad}

\* C5: request(T) is idempotent for the eventual cache: when the loop has
\* quiesced on T (pass finished, target unchanged, timed wait entered) the
\* cached set is a function of T alone, the same after k >= 1 calls in a row.
C5_RequestIdempotent ==
    (wpc = "wait2" /\ target = <<wTarget>>) => buffer = SettledCache(target[1])
\* the loop has quiesced on a target that was requested at least twice in a row
C5_Witness == wpc = "wait2" /\ target = <<wTarget>> /\ repeated /\ buffer # {}

\* C6: a render that raises is skipped: the index stays a miss and the loop
\* moves to the next index; every other index of the window is cached after
\* the pass, eviction has run, and the loop exits only when running is false.
C6_RenderFailureSkipped ==
    /\ [][(wpc = "render" /\ wI \in bad /\ wpc' # "render")
            => (wpc' = "for" /\ wI' = wI + 1 /\ buffer' = buffer)]_vars
    /\ [](wpc = "passdone" =>
            /\ \A i \in wStart..(wEnd - 1) : GetHit(buffer, i) <=> i \notin bad
            /\ buffer \subseteq wStart..(wEnd - 1))
    /\ [](buffer \cap bad = {})
    /\ [](wpc = "exited" => ~running)
\* a pass ended in which an index failed and a later index of the window is cached
C6_Witness ==
    /\ wpc = "passdone" /\ running
    /\ \E b \in bad : \E g \in buffer : wStart <= b /\ b < g /\ g < wEnd

\* C8 (as stated): after stop() has returned, the instance is never Running
\* again and no new background loop exists.
C8_Original == joinedOnce => (~running /\ wpc = "nothread")
\* C8 (amended): the cycle Stopped -> Running -> Stopped can repeat: whenever
\* running is set, also after a stop() that joined the loop, exactly one new
\* background loop is spawned and none existed; while running a loop exists.
C8_Restartable ==
    /\ [][(~running /\ running')
            => (thread = "None" /\ wpc = "nothread" /\ thread' = "Thread" /\ wpc' = "top_acq")]_vars
    /\ [](running => (thread = "Thread" /\ wpc \notin {"nothread", "exited"}))
\* after a stop() that joined the loop, a new loop is rendering
C8_Witness == joinedOnce /\ running /\ wpc = "render"

\* C9: stop() on an instance without a thread (second stop(), or never
\* started) returns without raising and without changing the cache, and after
\* stop() the lock is free, so get(i) returns a hit or a miss without blocking.
C9_LifecycleMisuseSafe ==
    /\ [](~raised)
    /\ [][(thread = "None" /\ ctl' # ctl) => (buffer' = buffer /\ thread' = "None")]_vars
    /\ []((ctl = "join" /\ thread = "None") => ENABLED StopJoin)
    /\ []((Stopped /\ thread = "None") =>
            (lock = "free" /\ \A i \in Targets : ENABLED Get(i)))
\* after a stop() that joined the loop a second stop() has returned, and a
\* get() made since then returned a frame
C9_Witness ==
    joinedOnce /\ idleStopped /\ Stopped /\ thread = "None" /\ ~raised /\ got = "hit"

C11_Original ==
    /\ Cardinality(buffer) <= capacity
    /\ target # None => buffer \subseteq DocWindow(target[1], capacity)
\* C11 (amended): the cache holds at most C frames, all inside the pass's
\* window, once a fill pass has evicted; while a pass is in progress it holds
\* at most C frames of the pass's window plus at most C frames left from the
\* previous pass, which are evicted only at the end of the pass.
FillingPcs == {"for", "check", "render", "commit", "evict"}
PassWindow == wStart..(wEnd - 1)
C11_BoundedAfterEviction ==
    /\ wpc \notin FillingPcs => Cardinality(buffer) <= capacity
    /\ wpc = "passdone" => buffer \subseteq PassWindow
    /\ wpc \in FillingPcs =>
          /\ Cardinality(buffer \cap PassWindow) <= capacity
          /\ Cardinality(buffer \ PassWindow) <= capacity
\* a pass is about to evict and the cache holds more frames than its capacity
C11_Witness == wpc = "evict" /\ Cardinality(buffer) > capacity

\* C12: stop() always completes: under a fair scheduler a stop() that has set
\* the flag eventually returns, from whatever position the loop was in, and
\* the loop starts no new fill pass in the meantime.
C12_StopCompletes ==
    /\ (ctl = "join") ~> (ctl = "idle")
    /\ [][(ctl = "join" /\ wpc # "window") => wpc' # "window"]_vars
\* stop() is waiting in join() while the loop is in the middle of a render
C12_Witness == ctl = "join" /\ thread = "Thread" /\ wpc = "render"

\* C13: fill liveness: while running, if the recorded target stays T and no
\* render raises, eventually get(i) is a hit for every index i < n_frames of
\* the window of T.
C13_FillLiveness ==
    \A t \in Targets :
        (running /\ target = <<t>> /\ bad = {})
            ~> \/ ~running
               \/ target # <<t>>
               \/ \A i \in DocWindow(t, capacity) : (0 <= i /\ i < nFrames) => GetHit(buffer, i)
\* a new target was recorded while the pass for a different target is rendering
C13_Witness ==
    /\ running /\ bad = {} /\ wpc = "render"
    /\ target # None /\ target # <<wTarget>>
    /\ \E i \in DocWindow(target[1], capacity) : 0 <= i /\ i < nFrames /\ ~GetHit(buffer, i)

\* C17: no backlog of ticks in Worker.run.  One loop iteration emits at most
\* one tick; every scheduling step (lines 46-52) ends no earlier than one
\* period after the reference it started from, and leaves the reference at
\* most one oversleep behind the clock, however long the thread was delayed:
\* lateness is dropped (next_time = perf_counter()), never carried into the
\* following iterations as sleeps that are skipped.
C17_NoTickBacklog ==
    /\ [][cIterTicks' <= 1]_vars
    /\ [][(cpc = "sched" /\ cpc' = "report") =>
            /\ cNow' >= cNext + cPeriod
            /\ cNext' <= cNow'
            /\ cNow' - cNext' <= MaxOversleep]_vars
\* an iteration has ended more than a period late and the reference was reset
C17_Witness ==
    /\ cpc = "report" /\ cSched = "reset" /\ cIterTicks = 1
    /\ cPeriod < MaxStall /\ cNext = cNow /\ cNow > MaxStall

\* C19: each side's trail never holds more than trailLength points, and after
\* any number of get_frame calls since the last clear it is exactly the most
\* recent min(trailLength, appended) centres of pressure, oldest first.
C19_TrailKeepsNewest ==
    LET k == Min(trailLen, Len(appended))
        recent(side) == [j \in 1..k |-> appended[Len(appended) - k + j][side]]
    IN  /\ Len(leftTrail) <= trailLen
        /\ Len(rightTrail) <= trailLen
        /\ leftTrail = recent(1)
        /\ rightTrail = recent(2)
\* more points than the trail holds were appended, and they differ
C19_Witness ==
    /\ trailLen >= 2
    /\ Len(appended) > trailLen
    /\ leftTrail[1] # leftTrail[2]
    /\ appended[1][1] # leftTrail[1]

\* C20: get_frame draws a trail marker only for points different from the
\* sentinel (0, 0).
C20_Original == \A mk \in drawn : mk[1] = "trail" => mk[3] # Sentinel

\* C15: graceful degradation.  When render_frame_at fails for every index the
\* cache stays empty (every get is a miss), the background loop is alive as
\* long as the PreRenderer is running, every tick while playing moves the
\* frame index one forward, stopping at the last frame, and the frame it
\* emits is the one frame of that slot and is rendered directly.
AllRendersFail == bad = 0..(nFrames - 1)
C15_GracefulDegradation ==
    /\ [](AllRendersFail => /\ buffer = {}
                            /\ (running /\ thread = "Thread") => wpc # "exited"
                            /\ emitCount <= 1
                            /\ emitSrc # "cache")
    /\ [][(AllRendersFail /\ hpc = "idle" /\ hpc' = "emit" /\ lastSlot' = "tick") =>
            frameIdx' = Min(frameIdx + 1, Max(nFrames, 1) - 1)]_vars
    /\ [][(AllRendersFail /\ hpc = "emit" /\ hpc' = "idle") =>
            /\ emitSrc' = "direct"
            /\ emitCount' = 1
            /\ Len(appended') = Len(appended) + 1
            /\ frameIdx' = frameIdx]_vars
\* playback reached the last frame by ticks, all frames rendered directly,
\* while the loop is still trying to render
C15_Witness ==
    /\ AllRendersFail /\ nFrames >= 2
    /\ lastSlot = "tick" /\ hpc = "idle" /\ playing
    /\ emitSrc = "direct" /\ emitCount = 1
    /\ frameIdx = nFrames - 1 /\ Len(appended) >= 2
    /\ running /\ wpc = "render"

\* C16: after seek(i) has been processed the animator's position is i clamped
\* to [0, n_frames - 1] and the target recorded in the pre-renderer is that
\* position.
C16_Original ==
    (lastSlot = "seek" /\ hpc = "idle") =>
        /\ frameIdx = SetFrameIdx(lastArg, nFrames)
        /\ target = <<frameIdx>>

\* C14: the buffer and the target are the only fields one thread writes while
\* another reads them.  While the background thread is alive no caller
\* replaces the animator (or the capacity) it works with, and the running
\* flag changes only inside a block that has taken the lock.
LoopAlive == thread = "Thread" /\ wpc \notin {"nothread", "exited"}
C14_Original ==
    [][LoopAlive => /\ UNCHANGED <<capacity, nFrames, bad>>
                    /\ running' # running => lock = "free"]_vars

\* C18 (as stated): after a rate change the next scheduling decision uses the
\* new rate.  Every scheduling step of Worker.run applies the period of the
\* rate stored at that moment, and set_fps(hz) on a running timer sets the
\* interval int(1000 / hz).
C18_Original ==
    /\ [][(cpc = "sched" /\ cpc' = "report") => cPeriod = PeriodOf(cFps)]_vars
    /\ [][(fpsArg' # fpsArg /\ fpsArg' >= 1 /\ timer = "active") =>
            interval' = IntervalOf(fpsArg')]_vars
\* C18 (amended): every iteration of Worker.run that begins after the change
\* reads the new rate and schedules with its period; only the iteration that
\* had already computed its period keeps the old one for its single sleep.
\* set_fps(hz) stores max(1, hz) and, when the timer is active, sets the
\* interval int(1000 / max(1, hz)) at once.
C18_RateAppliesNextIteration ==
    /\ [][(cpc = "top" /\ cpc' = "emit") => cPeriod' = PeriodOf(cFps)]_vars
    /\ [][(cpc = "sched" /\ cpc' = "report") =>
            (cNext' = cNext + cPeriod \/ cNext' = cNow')]_vars
    /\ [][(cpc = "emit" \/ cpc = "sched") => cPeriod' = cPeriod]_vars
    /\ [][fpsArg' # fpsArg =>
            /\ hwFps' = Max(1, fpsArg')
            /\ timer = "active" => interval' = IntervalOf(Max(1, fpsArg'))]_vars
    /\ [](timer = "active" => interval \in {0, IntervalOf(hwFps)})
\* worker.fps was assigned while an iteration was in flight, and set_fps(0)
\* was applied to the running timer
C18_Witness ==
    /\ cpc = "sched" /\ cSched = "slept" /\ cPeriod # PeriodOf(cFps)
    /\ timer = "active" /\ fpsArg = 0 /\ interval = IntervalOf(1)

\* C21: the composite frame returned by get_frame is exactly
\* 2*wFinal + 3*margin + legendWidth wide, the width the viewer window fixes
\* for its image area.
C21_Original ==
    (Len(composite) > 0 /\ composite[1] = "ok") =>
        /\ composite[3] = 2 * params.wFinal + 3 * params.margin + params.legendWidth
        /\ composite[3] = ViewerW(params)

\* C22: a radius <= 0 is rejected when the kernel bank is built: no Animator
\* exists whose kernel matrix was computed from such a radius.
C22_Original ==
    params.radius <= 0 =>
        \A side \in {1, 2} : kernels[side].weights = "none"

\* what _render_side owes for one side: r is the rendered side, seq and coords
\* are that side's sequence and layout when get_frame ran
SideRenderedRight(seq, coords, r, pr) ==
    /\ r.kind \in {"blank", "heatmap"}
    /\ r.h = pr.hFinal /\ r.w = pr.wFinal
    /\ (Len(seq) = 0 \/ Len(coords) = 0) <=> r.kind = "blank"
    /\ r.kind = "blank" => r.cop = Sentinel
    /\ r.kind = "heatmap" =>
          /\ Len(r.p) = Len(coords)
          /\ \A j \in 1..Len(coords) :
                r.p[j] = IF j <= Len(r.raw) THEN r.raw[j] ELSE 0

\* C23: rendering one side never fails on the shape of the data: a pressure
\* frame shorter or longer than the sensor count is padded with zeros or cut to
\* the sensor count and the image is hFinal x wFinal; a side without a sequence
\* or without sensors is a blank image with the sentinel COP, whatever the other
\* side holds.
C23_RenderSideTotal ==
    [][composite' # composite =>
          /\ composite'[1] = "ok"
          /\ SideRenderedRight(leftSeq, leftCoords, composite'[4], params)
          /\ SideRenderedRight(rightSeq, rightCoords, composite'[5], params)]_vars
\* a left frame shorter than the layout was padded while the right side is blank
C23_Witness ==
    /\ Len(composite) > 0
    /\ composite[4].kind = "heatmap"
    /\ Len(composite[4].raw) < Len(composite[4].p)
    /\ composite[5].kind = "blank"

\* C24: compute_cop returns the sentinel (0, 0) whenever the layout is empty,
\* whatever the frame holds, and whenever the pressures, padded or cut to the
\* layout, sum to zero or less; otherwise each coordinate is the
\* pressure-weighted mean of the sensor positions rounded to an integer.
C24_CopContract ==
    copOut # <<>> =>
        LET pressures == copArgs[1]
            coords == copArgs[2]
            n == Len(coords)
            ps == [j \in 1..n |-> IF j <= Len(pressures) THEN pressures[j] ELSE 0]
            s == SumTo(ps, n)
            cop == copOut[1]
        IN  IF n = 0 \/ s <= 0
              THEN cop = <<0, 0>>
              ELSE \A c \in {1, 2} :
                     LET d == cop[c] * s - SumTo([j \in 1..n |-> coords[j][c] * ps[j]], n)
                     IN  2 * d <= s /\ 2 * (0 - d) <= s
\* a frame longer than the layout, with a reading below zero, gave a real COP
C24_Witness ==
    /\ copOut # <<>> /\ copOut[1] # Sentinel
    /\ Len(copArgs[1]) > Len(copArgs[2])
    /\ \E j \in 1..Len(copArgs[2]) : copArgs[1][j] < 0

\* the radii drawn for one trail, oldest point first in trail
TrailRadiiAsStated(side, trail) ==
    Len(trail) >= 2 =>
        /\ <<"trail", side, trail[Len(trail)], 8>> \in drawn
        /\ <<"trail", side, trail[1], 2>> \in drawn
        /\ \A i \in 1..(Len(trail) - 1) :
              \E a \in 2..8, b \in 2..8 :
                 /\ a <= b
                 /\ <<"trail", side, trail[i], a>> \in drawn
                 /\ <<"trail", side, trail[i + 1], b>> \in drawn

\* C25: for every trail of n >= 2 points the newest point is drawn with the
\* maximum radius 8, the oldest with the minimum radius 2, and the radius never
\* decreases from an older point to a newer one.
C25_Original ==
    /\ TrailRadiiAsStated("left", leftTrail)
    /\ TrailRadiiAsStated("right", rightTrail)

C27_Original ==
    (timer = "active" /\ fpsArg = 0 - 1) => interval = IntervalOf(hwFps)

C29_NoLostWakeup ==
    /\ []((waiting /\ wpc = "wait1") => target = None)
    /\ \A t \in Targets :
          (running /\ thread = "Thread" /\ target = <<t>>)
              ~> \/ ~running
                 \/ target # <<t>>
                 \/ (wTarget = t /\ wpc \notin {"nothread", "top_acq", "top", "wait1", "exited"})
\* a request() has just woken the loop out of the untimed wait
C29_Witness == wpc = "wait1" /\ ~waiting /\ running /\ target # None

\* C30: playback never loops.  The frame index stays in [0, n_frames - 1],
\* step(+1) at the last frame leaves it where it is, and the sample a side
\* renders at frame index i is that side's own i-th sample: a side whose
\* sequence is shorter than the other's never wraps around to an earlier one.
C30_Original ==
    /\ [](0 <= frameIdx /\ frameIdx <= Max(0, NFrames(leftSeq, rightSeq) - 1))
    /\ [][(frameIdx = NFrames(leftSeq, rightSeq) - 1 /\ frameIdx' # frameIdx) => frameIdx' < frameIdx]_vars
    /\ [][composite' # composite =>
            \A side \in {4, 5} :
               composite'[side].kind # "blank" => composite'[side].sample = frameIdx]_vars

TypeOK ==
    /\ capacity \in 1..(MaxCapacity + 1) \cup {8}
    /\ running \in BOOLEAN
    /\ thread \in {"None", "Thread"}
    /\ lock \in {"free", "worker"}
    /\ ctl \in {"idle", "join"}
    /\ got \in {"none", "hit", "miss"}
====
